---- MODULE Spec2Model ----
(***************************************************************************)
(* Model of the progressive spice simulation (src/simulation.py), of the   *)
(* entity records it reads (src/models.py, src/constants.py) and of        *)
(* format_time (src/utils.py).                                             *)
(*                                                                         *)
(* Python floats are IEEE 754 binary64 values and are modelled bit for     *)
(* bit: a finite float >= 0 is m * 2^e with a mantissa of 53 bits, kept as *)
(* a sequence of limbs, and +, -, *, / round to the nearest float, a tie    *)
(* going to the even mantissa; ** is the C library's pow (see FPow).  A    *)
(* result beyond the finite floats is +infinity, for ** OverflowError; a   *)
(* result below the normal floats is rounded to a subnormal float or to    *)
(* 0.0.  Only the values the program reaches are covered: floats >= 0 and  *)
(* +infinity.  Speeds and powers are floats, as models.py declares them:   *)
(* an int given for one behaves as its float in every operation here.      *)
(*                                                                         *)
(* Spec runs the generator simulate_progressive: one action per            *)
(* resumption.  yielded holds the tuples it handed out (references to its  *)
(* three lists and the value of breakeven), emitted what the consumer      *)
(* read from each tuple when it received it.  CallSpec applies, to         *)
(* arguments drawn from bounded sets, the constructor of Team and the      *)
(* functions calculate_forage_requirement and format_time: call holds the  *)
(* call and result what it returned or raised.  PairSpec runs two          *)
(* invocations of the generator on the same teams, the consumer pulling    *)
(* from either: the variables hold the locals of the invocation being      *)
(* pulled (number current), suspended the frame of the other one.          *)
(***************************************************************************)
EXTENDS Integers, Sequences, FiniteSets, TLC

VARIABLES territory, team_a, team_b, max_hours, stop_at_breakeven,
          a, b, timeline, a_yield, b_yield, breakeven, t, pc, yielded, emitted,
          call, result, current, suspended

vars == <<territory, team_a, team_b, max_hours, stop_at_breakeven,
          a, b, timeline, a_yield, b_yield, breakeven, t, pc, yielded, emitted,
          call, result, current, suspended>>

\* ------------------------------------------------------------------ bounds
\* Small inputs: forage 0..MaxForage, speeds 0..MaxSpeed, hours up to MaxHours.
MaxForage == 2
MaxSpeed == 2
MaxHours == 1
MaxPets == 5
MaxFills == 2
MaxTicks == 120
\* Inputs on which the rounding of the float operations changes what the
\* generator does: speeds that do not divide the requirement.
FloatMinForage == 2
FloatMaxForage == 3
FloatMinSpeed == 5
FloatMaxSpeed == 7
FloatMaxHours == 2
\* A speed s with s * (1 / s) < 1 in binary64.
FloatMissSpeed == 49
\* No more emissions than this are followed: a run that is still going then is
\* cut off (the runs that end have fewer).
MaxEmissions == 16

\* ------------------------------------------------------- program constants
\* Optional values: None is the empty tuple, a present value v is <<v>>.
None == <<>>
Some(v) == <<v>>
ValueOf(o) == o[1]
ALCHEMIC == "Alchemic"
MONOLITHIC == "Monolithic"
META_TEAM == "Meta Team"
ALCHEMIC_TEAM == "Alchemic Team"

DEFAULT_TEAMS ==
    [x \in {META_TEAM, ALCHEMIC_TEAM} |->
        IF x = META_TEAM
        THEN <<"Borger", "Miasma", "Forager", "Converter">>
        ELSE <<"Alchemic", "Alchemic", "Alchemic", "Converter">>]

MAX_TEAM_SIZE == 4

\* ------------------------------------------ float values (IEEE 754 binary64)
\* F applied to the value of v (v is evaluated once, whatever F does with it).
With(v, F(_)) == CHOOSE r \in {F(x) : x \in {v}} : TRUE

With2(v, w, F(_, _)) == CHOOSE r \in {F(x, y) : x \in {v}, y \in {w}} : TRUE

\* Natural numbers of any size: little-endian sequences of limbs below LimbBase,
\* without leading zero limbs (0 is the empty sequence).
LimbBase == 32768
LimbBits == 15

\* A divisor is scaled to this many full limbs before a long division.
DivisorLimbs == 4

\* Limbs are worked through one after the other in runs of at most this many;
\* a longer range is halved.
ChunkLimbs == 8

RECURSIVE Pow2(_)
Pow2(k) == IF k = 0 THEN 1 ELSE 2 * Pow2(k - 1)

RECURSIVE BitLength(_)
BitLength(k) == IF k = 0 THEN 0 ELSE 1 + BitLength(k \div 2)

\* x without its leading zero limbs
BStripOf(x) ==
    SubSeq(x, 1, CHOOSE n \in 0..Len(x) :
                     /\ n = 0 \/ x[n] # 0
                     /\ \A j \in (n + 1)..Len(x) : x[j] = 0)

BStrip(x) == With(x, BStripOf)

RECURSIVE BFromInt(_)
BFromInt(k) == IF k = 0 THEN <<>> ELSE <<k % LimbBase>> \o BFromInt(k \div LimbBase)

Limb(x, i) == IF i <= Len(x) THEN x[i] ELSE 0

\* x + y + c on the limbs i..hi, limb by limb: the limbs of the sum, then the
\* carry out
RECURSIVE BAddFrom(_, _, _, _, _)
BAddFrom(x, y, c, i, hi) ==
    IF i > hi THEN <<c>>
    ELSE With(Limb(x, i) + Limb(y, i) + c,
              LAMBDA s : <<s % LimbBase>> \o BAddFrom(x, y, s \div LimbBase, i + 1, hi))

RECURSIVE BAddRange(_, _, _, _, _)
BAddRange(x, y, c, lo, hi) ==
    IF hi - lo < ChunkLimbs THEN BAddFrom(x, y, c, lo, hi)
    ELSE With2(BAddRange(x, y, c, lo, (lo + hi) \div 2), (lo + hi) \div 2,
               LAMBDA l, mid :
                   SubSeq(l, 1, Len(l) - 1) \o BAddRange(x, y, l[Len(l)], mid + 1, hi))

BAddOf(x, y) ==
    IF x = <<>> THEN y
    ELSE IF y = <<>> THEN x
    ELSE
    With(BAddRange(x, y, 0, 1, IF Len(x) < Len(y) THEN Len(y) ELSE Len(x)),
         LAMBDA r : IF r[Len(r)] = 0 THEN SubSeq(r, 1, Len(r) - 1) ELSE r)

BAdd(x, y) == With2(x, y, BAddOf)

\* x - y - c on the limbs i..hi (x >= y), limb by limb: the limbs of the
\* difference, then the borrow out
RECURSIVE BSubFrom(_, _, _, _, _)
BSubFrom(x, y, c, i, hi) ==
    IF i > hi THEN <<c>>
    ELSE With(Limb(x, i) - Limb(y, i) - c,
              LAMBDA s : IF s < 0 THEN <<s + LimbBase>> \o BSubFrom(x, y, 1, i + 1, hi)
                                  ELSE <<s>> \o BSubFrom(x, y, 0, i + 1, hi))

RECURSIVE BSubRange(_, _, _, _, _)
BSubRange(x, y, c, lo, hi) ==
    IF hi - lo < ChunkLimbs THEN BSubFrom(x, y, c, lo, hi)
    ELSE With2(BSubRange(x, y, c, lo, (lo + hi) \div 2), (lo + hi) \div 2,
               LAMBDA l, mid :
                   SubSeq(l, 1, Len(l) - 1) \o BSubRange(x, y, l[Len(l)], mid + 1, hi))

BSubOf(x, y) ==
    IF y = <<>> THEN x
    ELSE
    With(BSubRange(x, y, 0, 1, Len(x)), LAMBDA r : BStrip(SubSeq(r, 1, Len(r) - 1)))

BSub(x, y) == With2(x, y, BSubOf)

\* -1, 0 or 1 as x <, =, > y, comparing the limbs from index i down to lo
RECURSIVE BCmpFrom(_, _, _, _)
BCmpFrom(x, y, i, lo) ==
    IF i < lo THEN 0
    ELSE IF x[i] < y[i] THEN 0 - 1
    ELSE IF x[i] > y[i] THEN 1
    ELSE BCmpFrom(x, y, i - 1, lo)

RECURSIVE BCmpRange(_, _, _, _)
BCmpRange(x, y, lo, hi) ==
    IF hi - lo < ChunkLimbs THEN BCmpFrom(x, y, hi, lo)
    ELSE With2(BCmpRange(x, y, (lo + hi) \div 2 + 1, hi), (lo + hi) \div 2,
               LAMBDA h, mid : IF h # 0 THEN h ELSE BCmpRange(x, y, lo, mid))

BCmpOf(x, y) ==
    IF Len(x) < Len(y) THEN 0 - 1
    ELSE IF Len(x) > Len(y) THEN 1
    ELSE BCmpRange(x, y, 1, Len(x))

BCmp(x, y) == With2(x, y, BCmpOf)

\* x * k + c for a limb k on the limbs i..hi of x, limb by limb: the limbs of
\* the product, then the carry out
RECURSIVE BMulLimbFrom(_, _, _, _, _)
BMulLimbFrom(x, k, c, i, hi) ==
    IF i > hi THEN <<c>>
    ELSE With(x[i] * k + c,
              LAMBDA s : <<s % LimbBase>> \o BMulLimbFrom(x, k, s \div LimbBase, i + 1, hi))

RECURSIVE BMulLimbRange(_, _, _, _, _)
BMulLimbRange(x, k, c, lo, hi) ==
    IF hi - lo < ChunkLimbs THEN BMulLimbFrom(x, k, c, lo, hi)
    ELSE With2(BMulLimbRange(x, k, c, lo, (lo + hi) \div 2), (lo + hi) \div 2,
               LAMBDA l, mid :
                   SubSeq(l, 1, Len(l) - 1) \o BMulLimbRange(x, k, l[Len(l)], mid + 1, hi))

BMulLimbOf(x, k) ==
    IF k = 0 THEN <<>>
    ELSE IF k = 1 THEN x
    ELSE With(BMulLimbRange(x, k, 0, 1, Len(x)),
              LAMBDA r : IF r[Len(r)] = 0 THEN SubSeq(r, 1, Len(r) - 1) ELSE r)

BMulLimb(x, k) == With2(x, k, BMulLimbOf)

\* x * LimbBase^n
BShiftLimbsOf(x, n) == IF x = <<>> THEN x ELSE [i \in 1..n |-> 0] \o x

BShiftLimbs(x, n) == With2(x, n, BShiftLimbsOf)

\* x times the limbs i..hi of y, limb by limb
RECURSIVE BMulFrom(_, _, _, _)
BMulFrom(x, y, i, hi) ==
    IF i > hi THEN <<>>
    ELSE BAdd(BMulLimb(x, y[i]), BShiftLimbs(BMulFrom(x, y, i + 1, hi), 1))

RECURSIVE BMulRange(_, _, _, _)
BMulRange(x, y, lo, hi) ==
    IF hi - lo < ChunkLimbs THEN BMulFrom(x, y, lo, hi)
    ELSE With((lo + hi) \div 2, LAMBDA mid :
             BAdd(BMulRange(x, y, lo, mid),
                  BShiftLimbs(BMulRange(x, y, mid + 1, hi), mid + 1 - lo)))

BMulOf(x, y) ==
    IF Len(x) < Len(y) THEN BMulRange(y, x, 1, Len(x)) ELSE BMulRange(x, y, 1, Len(y))

BMul(x, y) == With2(x, y, BMulOf)

\* x^n, by squaring
RECURSIVE BPow(_, _)
BPow(x, n) ==
    IF n = 0 THEN <<1>>
    ELSE IF n % 2 = 0 THEN With(BPow(x, n \div 2), LAMBDA h : BMul(h, h))
    ELSE BMul(BPow(x, n - 1), x)

\* The value of x as an integer (x below 2^31)
RECURSIVE BToInt(_)
BToInt(x) == IF x = <<>> THEN 0 ELSE Head(x) + LimbBase * BToInt(Tail(x))

\* x * 2^n
BShl(x, n) == BShiftLimbs(BMulLimb(x, Pow2(n % LimbBits)), n \div LimbBits)

\* The limbs i down to lo of x, after a remainder r < k, divided by a limb
\* k > 0, limb by limb: the remainder, then the limbs of the quotient
RECURSIVE BDivLimbFrom(_, _, _, _, _)
BDivLimbFrom(x, k, r, i, lo) ==
    IF i < lo THEN <<r>>
    ELSE With(r * LimbBase + x[i],
              LAMBDA s : BDivLimbFrom(x, k, s % k, i - 1, lo) \o <<s \div k>>)

RECURSIVE BDivLimbRange(_, _, _, _, _)
BDivLimbRange(x, k, r, lo, hi) ==
    IF hi - lo < ChunkLimbs THEN BDivLimbFrom(x, k, r, hi, lo)
    ELSE With2(BDivLimbRange(x, k, r, (lo + hi) \div 2 + 1, hi), (lo + hi) \div 2,
               LAMBDA h, mid : BDivLimbRange(x, k, h[1], lo, mid) \o Tail(h))

\* floor(x / k) for a limb k > 0
BDivLimbOf(x, k) ==
    IF k = 1 THEN x ELSE BStrip(Tail(BDivLimbRange(x, k, 0, 1, Len(x))))

\* floor(x / 2^n)
BShrOf(x, n) ==
    IF n \div LimbBits >= Len(x) THEN <<>>
    ELSE With2(SubSeq(x, n \div LimbBits + 1, Len(x)), Pow2(n % LimbBits), BDivLimbOf)

BShr(x, n) == With2(x, n, BShrOf)

BBitsOf(x) == IF x = <<>> THEN 0 ELSE LimbBits * (Len(x) - 1) + BitLength(x[Len(x)])

BBits(x) == With(x, BBitsOf)

BIsOdd(x) == x # <<>> /\ x[1] % 2 = 1

\* The largest k <= guess with d * k <= r
RECURSIVE BDigitFrom(_, _, _)
BDigitFrom(r, d, guess) ==
    IF BCmp(BMulLimb(d, guess), r) > 0 THEN BDigitFrom(r, d, guess - 1) ELSE guess

\* floor(r / d) for r < d * LimbBase, d of DivisorLimbs limbs with its top bit set:
\* the two top limbs of r over the top limb of d are at most 2 above it.
BDigit(r, d) ==
    With((Limb(r, DivisorLimbs + 1) * LimbBase + Limb(r, DivisorLimbs))
             \div d[DivisorLimbs],
         LAMBDA guess :
             BDigitFrom(r, d, IF guess < LimbBase THEN guess ELSE LimbBase - 1))

\* n more limbs of the quotient r / d (r < d): the limbs and the last remainder
RECURSIVE BDivDigits(_, _, _)
BDivDigits(r, d, n) ==
    IF n = 0 THEN [q |-> <<>>, r |-> r]
    ELSE IF r = <<>> THEN [q |-> [i \in 1..n |-> 0], r |-> r]
    ELSE With(BShiftLimbs(r, 1), LAMBDA r1 :
         With(BDigit(r1, d), LAMBDA k :
         With(BDivDigits(BSub(r1, BMulLimb(d, k)), d, n - 1), LAMBDA rest :
              [q |-> rest.q \o <<k>>, r |-> rest.r])))

\* A finite float >= 0 is m * 2^e: a normal one has 2^52 <= m < 2^53 and
\* e >= MinExponent, a subnormal one 0 < m < 2^52 and e = MinExponent, and 0.0
\* has m = 0, e = 0.
MantissaBits == 53

\* The smallest positive float is 2^MinExponent.
MinExponent == 0 - 1074

\* The finite floats are below 2^MaxExponent.
MaxExponent == 1024

FZero == [inf |-> FALSE, m |-> <<>>, e |-> 0]

\* float("inf")
FInf == [inf |-> TRUE, m |-> <<>>, e |-> 0]

FIsInf(x) == x.inf

FIsZero(x) == ~x.inf /\ x.m = <<>>

\* m * 2^e with m of MantissaBits bits is beyond the finite floats
FOverflows(x) == ~x.inf /\ x.e + MantissaBits > MaxExponent

\* m * 2^e rounded to a multiple of 2^(e + sh), sh > 0: q are the bits of m
\* above the lowest sh, whose value compares to half a unit of q as c does
\* (-1, 0, 1).  A tie goes to the even mantissa.
FRoundUp(q, sh, c, e, sticky) ==
    IF c > 0 \/ (c = 0 /\ (sticky \/ BIsOdd(q)))
    THEN With(BAdd(q, <<1>>), LAMBDA q2 :
             IF BBits(q2) > MantissaBits
             THEN [inf |-> FALSE, m |-> BShr(q2, 1), e |-> e + sh + 1]
             ELSE [inf |-> FALSE, m |-> q2, e |-> e + sh])
    ELSE IF q = <<>> THEN FZero
    ELSE [inf |-> FALSE, m |-> q, e |-> e + sh]

\* The number of low bits of m * 2^e that no float holds: those beyond the
\* MantissaBits leading ones, and those below 2^MinExponent.
FDropped(bits, e) ==
    IF bits - MantissaBits > MinExponent - e
    THEN bits - MantissaBits ELSE MinExponent - e

FRoundOf(m, e, sticky) ==
    IF m = <<>> THEN FZero
    ELSE With(FDropped(BBits(m), e), LAMBDA sh :
         IF sh <= 0
         THEN [inf |-> FALSE, m |-> BShl(m, 0 - sh), e |-> e + sh]
         ELSE With(BShr(m, sh), LAMBDA q :
                  FRoundUp(q, sh,
                           BCmp(BSub(m, BShl(q, sh)), BShl(<<1>>, sh - 1)),
                           e, sticky)))

\* The float nearest to (m + f) * 2^e, where 0 <= f < 1 and sticky says f > 0
\* (m then has more than MantissaBits + 1 bits); beyond the finite floats it is
\* +infinity, below the normal ones a subnormal float or 0.0.
FRound(m, e, sticky) ==
    With(With2(m, e, LAMBDA m1, e1 : FRoundOf(m1, e1, sticky)),
         LAMBDA r : IF FOverflows(r) THEN FInf ELSE r)

\* float(k) of an integer k >= 0
FInt(k) == FRound(BFromInt(k), 0, FALSE)

FAddOf(x, y) ==
    IF FIsInf(x) \/ FIsInf(y) THEN FInf
    ELSE IF FIsZero(x) THEN y
    ELSE IF FIsZero(y) THEN x
    ELSE With(IF x.e < y.e THEN x.e ELSE y.e, LAMBDA e :
             FRound(BAdd(BShl(x.m, x.e - e), BShl(y.m, y.e - e)), e, FALSE))

\* x + y
FAdd(x, y) == With2(x, y, FAddOf)

FLeOf(x, y) ==
    IF FIsInf(y) THEN TRUE
    ELSE IF FIsInf(x) THEN FALSE
    ELSE IF FIsZero(x) THEN TRUE
    ELSE IF FIsZero(y) THEN FALSE
    ELSE IF x.e # y.e THEN x.e < y.e
    ELSE BCmp(x.m, y.m) <= 0

\* x <= y
FLe(x, y) == With2(x, y, FLeOf)

\* x < y
FLt(x, y) == ~FLe(y, x)

FSubOf(x, y) ==
    IF FIsInf(x) THEN FInf
    ELSE IF FIsZero(y) THEN x
    ELSE With(IF x.e < y.e THEN x.e ELSE y.e, LAMBDA e :
             FRound(BSub(BShl(x.m, x.e - e), BShl(y.m, y.e - e)), e, FALSE))

\* x - y (y finite, y <= x)
FSub(x, y) == With2(x, y, FSubOf)

FMulOf(x, y) ==
    IF FIsZero(x) \/ FIsZero(y) THEN FZero
    ELSE IF FIsInf(x) \/ FIsInf(y) THEN FInf
    ELSE FRound(BMul(x.m, y.m), x.e + y.e, FALSE)

\* x * y (not 0 * inf)
FMul(x, y) == With2(x, y, FMulOf)

\* Long division of the mantissas, both scaled to DivisorLimbs full limbs (by
\* sx and sy bits): the leading quotient bit, then DivisorLimbs limbs of quotient.
FDivOf(x, y) ==
    IF FIsZero(x) THEN FZero
    ELSE IF FIsInf(x) THEN FInf
    ELSE With2(DivisorLimbs * LimbBits - BBits(x.m),
               DivisorLimbs * LimbBits - BBits(y.m), LAMBDA sx, sy :
         With2(BShl(x.m, sx), BShl(y.m, sy), LAMBDA n, d :
         With(BCmp(n, d) >= 0, LAMBDA ge :
         With(BDivDigits(IF ge THEN BSub(n, d) ELSE n, d, DivisorLimbs), LAMBDA qr :
              FRound(IF ge THEN qr.q \o <<1>> ELSE BStrip(qr.q),
                     (x.e - sx) - (y.e - sy) - DivisorLimbs * LimbBits,
                     qr.r # <<>>)))))

\* x / y (y finite, y > 0)
FDiv(x, y) == With2(x, y, FDivOf)

\* min(x, y): Python's min returns its first argument unless the second is smaller.
FMin(x, y) == With2(x, y, LAMBDA x1, y1 : IF FLt(y1, x1) THEN y1 ELSE x1)

\* round(x) of a float x >= 0 below 2^31: the nearest integer, a tie going to
\* the even one.
Round_Floor(x) ==
    IF FIsZero(x) THEN 0
    ELSE IF x.e >= 0 THEN BToInt(BShl(x.m, x.e))
    ELSE BToInt(BShr(x.m, 0 - x.e))

RoundOf(x) ==
    IF FIsZero(x) THEN 0
    ELSE IF x.e >= 0 THEN BToInt(BShl(x.m, x.e))
    ELSE With(BShr(x.m, 0 - x.e), LAMBDA q :
         With(BCmp(BShl(BSub(x.m, BShl(q, 0 - x.e)), 1), BShl(<<1>>, 0 - x.e)),
              LAMBDA c :
                  BToInt(IF c > 0 \/ (c = 0 /\ BIsOdd(q)) THEN BAdd(q, <<1>>) ELSE q)))

Round(x) == With(x, RoundOf)

\* ------------------------------------------------------------ entity model
Pet(genetic) == [genetic |-> [name |-> genetic], power |-> None]

Pets(names) == [i \in DOMAIN names |-> Pet(names[i])]

Team(pets, manual_speed) == [pets |-> pets, manual_speed |-> manual_speed]

\* sum(pet.power if pet.power is not None else 0.0 for pet in self.pets), from
\* the total of the pets before
RECURSIVE SumPower(_, _)
SumPower(pets, total) ==
    IF pets = <<>> THEN total
    ELSE SumPower(Tail(pets),
                  FAdd(total, IF Head(pets).power # None
                              THEN ValueOf(Head(pets).power) ELSE FZero))

\* Team.speed
TeamSpeed(team) ==
    IF team.manual_speed # None THEN ValueOf(team.manual_speed)
    ELSE SumPower(team.pets, FZero)

\* Pet(genetic=..., power=...)
PetWithPower(genetic, power) == [genetic |-> [name |-> genetic], power |-> Some(power)]

\* Team.size
TeamSize(team) == Len(team.pets)

\* any(pet.power is None for pet in self.pets)
AnyPetWithoutPower(team) == \E i \in DOMAIN team.pets : team.pets[i].power = None

\* Mutant: the power check is dropped.
PostInitRaises_SizeOnly(team) == TeamSize(team) > MAX_TEAM_SIZE

\* Team.__post_init__: whether it raises ValueError.
PostInitRaises(team) ==
    \/ TeamSize(team) > MAX_TEAM_SIZE
    \/ team.manual_speed = None /\ AnyPetWithoutPower(team)

\* What a call produced: an exception or a returned value.
Raised(exception) == [raised |-> Some(exception), returned |-> None]
Returned(value) == [raised |-> None, returned |-> Some(value)]

\* Team(pets=..., manual_speed=...): the dataclass constructor, which runs
\* __post_init__ on the new object.
NewTeam(pets, manual_speed) ==
    IF PostInitRaises(Team(pets, manual_speed))
    THEN Raised("ValueError")
    ELSE Returned(Team(pets, manual_speed))

\* ------------------------------------------------------------- simulation
count_genetic(team, name) ==
    Cardinality({i \in DOMAIN team.pets : team.pets[i].genetic.name = name})

\* 0.02
Float002 == FDiv(FInt(2), FInt(100))

\* 0.5
FloatHalf == FDiv(FInt(1), FInt(2))

\* bonus = 1 + 0.02 / (monolithic_count / 5 + 1), for each count a team can have
bonus ==
    [m \in 0..MAX_TEAM_SIZE |->
        FAdd(FInt(1), FDiv(Float002, FAdd(FDiv(FInt(m), FInt(5)), FInt(1))))]

\* The C library's pow, which Python's ** calls, returns the float nearest to the
\* power for every exponent below this one, for each of the five values of bonus.
PowNearestBelow == 986

\* The powers of bonus for which pow does not return the nearest float but its
\* neighbour on the other side of the power: for each monolithic count m (the
\* base is bonus[m]) the exponents, among all those whose power is finite.
PowOffNearest ==
    [m \in 0..MAX_TEAM_SIZE |->
        CASE m = 0 ->
         {1010, 5399, 7972, 8616, 9569, 10018, 10027, 11145, 11163, 12629,
          13927, 14534, 16193, 17591, 17711, 19775, 20439, 20610, 20648,
          21034, 22183, 24355, 25722, 28447, 29132, 29727, 32429, 33145,
          33229, 33388, 34018, 34526}
          [] m = 1 ->
         {986, 3885, 3889, 4132, 6327, 8046, 8255, 8327, 8583, 11269, 17179,
          18164, 21196, 21679, 22307, 22348, 27135, 27570, 30328, 32481,
          35436, 35827, 36605, 36609, 37898, 38969}
          [] m = 2 ->
         {1708, 2765, 3409, 3504, 4652, 4865, 4935, 5033, 5626, 6105, 6636,
          6999, 7281, 7495, 7637, 9610, 11648, 14754, 15224, 16263, 16974,
          20039, 21045, 21488, 23272, 24597, 24861, 26630, 26805, 27543,
          27831, 29193, 29834, 30147, 33591, 35507, 39324, 40094, 41499,
          41662, 43476, 45148, 46291, 47435}
          [] m = 3 ->
         {2841, 3774, 4315, 5363, 7951, 10032, 13671, 14312, 17158, 18795,
          19036, 19879, 21994, 24885, 25457, 32015, 33410, 33431, 34467,
          35578, 46004, 47437, 48423, 53321, 56657, 56729}
          [] m = 4 ->
         {1227, 1781, 2951, 3535, 4041, 5080, 8900, 10543, 11470, 13020,
          13562, 14351, 14547, 14839, 17459, 19048, 19370, 19682, 21855,
          25065, 25275, 25289, 25438, 26516, 28025, 28915, 29737, 30947,
          32862, 35304, 36688, 42680, 44593, 44776, 46390, 46856, 48953,
          52483, 53636, 54295, 56307, 60830, 60831, 61091, 61143, 62128}]

\* The float below the power m^k * 2^(e*k) and the one above it (one float when
\* the power is a float), given as the integer p = m^k and the exponent.
PowNeighbours(p, e) ==
    With2(BShr(p, BBits(p) - MantissaBits), BBits(p) - MantissaBits,
          LAMBDA q, sh :
              {FRoundUp(q, sh, 0 - 1, e, FALSE),
               FRoundUp(q, sh, IF BShl(q, sh) = p THEN 0 - 1 ELSE 1, e, FALSE)})

\* The float pow returns for the power m^k * 2^e, given as the integer p = m^k
\* and the exponent: pow is accurate to less than one unit in the last place, so
\* it returns a neighbour of the power, which is the nearest one unless off.
FPowOf(p, e, off) ==
    With(FRound(p, e, FALSE), LAMBDA nearest :
        IF off THEN CHOOSE r \in PowNeighbours(p, e) : r # nearest ELSE nearest)

\* What ** raises when the power is beyond the finite floats
OverflowError == [exception |-> "OverflowError"]

\* x ** k for a finite x and an integer k >= 0: the value pow returns, where off
\* tells that the power is one of PowOffNearest, or OverflowError.
FPow(x, k, off) ==
    With2(x, k, LAMBDA x1, k1 :
        IF k1 = 0 THEN FInt(1)
        ELSE IF FIsZero(x1) THEN FZero
        ELSE With(FPowOf(BPow(x1.m, k1), x1.e * k1, off),
                  LAMBDA r : IF FIsInf(r) THEN OverflowError ELSE r))

\* bonus ** fills
BonusPower(monolithic_count, fills) ==
    FPow(bonus[monolithic_count], fills, fills \in PowOffNearest[monolithic_count])

\* Mutant: the cycle index is taken from the base.
calculate_forage_requirement_Countdown(base, fills, monolithic_count) ==
    FMul(FInt(IF base >= fills THEN base - fills ELSE 0),
         BonusPower(monolithic_count, fills))

\* (base + fills) * (bonus ** fills), for base + fills >= 0: a float, or the
\* OverflowError of the power
calculate_forage_requirement(base, fills, monolithic_count) ==
    With(BonusPower(monolithic_count, fills), LAMBDA power :
        IF power = OverflowError THEN OverflowError
        ELSE FMul(FInt(base + fills), power))

init_state(team) ==
    [spice |-> FZero,
     fills |-> 0,
     progress |-> FZero,
     speed |-> TeamSpeed(team),
     alchemic |-> count_genetic(team, ALCHEMIC),
     monolithic |-> count_genetic(team, MONOLITHIC)]

\* req of next_fill_time and of the loop body.  It is a float: the power raises
\* OverflowError only from 35843 fills on, which no run here comes near.
Requirement(state) ==
    calculate_forage_requirement(territory.forage, state.fills, state.monolithic)

next_fill_time(state) ==
    IF FLe(state.speed, FZero) THEN FInf
    ELSE FDiv(FSub(Requirement(state), state.progress), state.speed)

\* dt = min(next_fill_time(a), next_fill_time(b))
StepDt == FMin(next_fill_time(a), next_fill_time(b))

\* Mutant: Alchemic pets add nothing to a fill.
FillYield_Plain(state) == FInt(1)

\* The per-fill yield 1 + 0.5 * alchemic
FillYield(state) == FAdd(FInt(1), FMul(FloatHalf, FInt(state.alchemic)))

\* progress >= req
FillDue(progress, req) == FLe(req, progress)

\* state["progress"] += state["speed"] * dt: the value the fill check reads
AccruedProgress(state, dt) == FAdd(state.progress, FMul(state.speed, dt))

\* One team's body of the for loop, for a finite dt.
UpdateState(state, dt) ==
    With(AccruedProgress(state, dt), LAMBDA progress :
        IF FillDue(progress, Requirement(state))
        THEN [state EXCEPT !.fills = @ + 1,
                           !.spice = FAdd(@, FillYield(state)),
                           !.progress = FZero]
        ELSE [state EXCEPT !.progress = progress])

\* Mutant: the comparison is >= instead of >.
BreakevenDetected_GE(sa, sb, be) == be = None /\ FLe(sa.spice, sb.spice)

\* Mutant: the "breakeven is None" test is dropped.
BreakevenDetected_Again(sa, sb, be) == FLt(sa.spice, sb.spice)

\* breakeven is None and b["spice"] > a["spice"]
BreakevenDetected(sa, sb, be) == be = None /\ FLt(sa.spice, sb.spice)

\* Mutant: the early return is missing.
ReturnsAfter_Never(detected, stop) == FALSE

\* Whether the generator returns right after the emission that detected breakeven.
ReturnsAfter(detected, stop) == detected /\ stop

\* Mutant: the newest sample overwrites the last one instead of extending the history.
AppendSample_Overwrite(history, x) == [history EXCEPT ![Len(history)] = x]

\* history.append(x)
AppendSample(history, x) == Append(history, x)

\* A list object: the list `name` that invocation number `invocation` created.
ListRef(invocation, name) == [of |-> invocation, list |-> name]

\* yield timeline, a_yield, b_yield, breakeven: the tuple holds the generator's
\* own three lists (not copies) and the value of breakeven.
YieldedTuple(be) ==
    [timeline |-> ListRef(current, "timeline"),
     team_a_yield |-> ListRef(current, "a_yield"),
     team_b_yield |-> ListRef(current, "b_yield"),
     breakeven |-> be]

\* The contents of a list object now: a local of the running invocation, or of
\* the suspended one.
Deref(ref) ==
    IF ref.of = current
    THEN (CASE ref.list = "timeline" -> timeline
            [] ref.list = "a_yield" -> a_yield
            [] OTHER -> b_yield)
    ELSE ValueOf(suspended)[ref.list]

\* What whoever holds a yielded tuple reads from it now.
ReadTuple(tuple) ==
    [timeline |-> Deref(tuple.timeline),
     team_a_yield |-> Deref(tuple.team_a_yield),
     team_b_yield |-> Deref(tuple.team_b_yield),
     breakeven |-> tuple.breakeven]

\* What the consumer reads from a tuple at the time it receives it, the lists
\* being then tl, ay and by: the consumer of the application unpacks and reads
\* each tuple before it pulls again.
Snapshot(tl, ay, by, be) ==
    [timeline |-> tl, team_a_yield |-> ay, team_b_yield |-> by, breakeven |-> be]

\* while t <= max_hours (t >= 0; max_hours is an integer)
LoopCondition == max_hours >= 0 /\ FLe(t, FInt(max_hours))

\* Mutant: a step landing exactly on max_hours is discarded too.
Overshoots_GE(time) == max_hours < 0 \/ FLe(FInt(max_hours), time)

\* if t > max_hours: break (for the advanced time, which is >= 0)
Overshoots(time) == max_hours < 0 \/ FLt(FInt(max_hours), time)

\* -------------------------------------------------------------------- utils
format_time(hours) ==
    With(Round(FMul(hours, FInt(3600))), LAMBDA total_seconds :
        LET h == total_seconds \div 3600
            remainder == total_seconds % 3600
            m == remainder \div 60
            s == remainder % 60
        IN  IF h # 0
            THEN (IF m # 0 THEN ToString(h) \o "h " \o ToString(m) \o "m"
                           ELSE ToString(h) \o "h")
            ELSE IF m # 0
            THEN (IF s # 0 THEN ToString(m) \o "m " \o ToString(s) \o "s"
                           ELSE ToString(m) \o "m")
            ELSE IF s # 0 THEN ToString(s) \o "s" ELSE "0s")

\* ------------------------------------------------------------------ inputs
GeneticLists ==
    {<<>>, <<ALCHEMIC>>, <<MONOLITHIC>>,
     DEFAULT_TEAMS[META_TEAM], DEFAULT_TEAMS[ALCHEMIC_TEAM]}

Teams == {Team(Pets(g), Some(FInt(s))) : g \in GeneticLists, s \in 0..MaxSpeed}

Hours == (0 - 1)..MaxHours

FloatTeams ==
    {Team(Pets(g), Some(FInt(s))) : g \in {<<>>, <<ALCHEMIC>>, <<MONOLITHIC>>},
                                    s \in FloatMinSpeed..FloatMaxSpeed}

MissTeams == {Team(Pets(g), Some(FInt(FloatMissSpeed))) : g \in {<<>>, <<ALCHEMIC>>}}

\* float(10 ** 308): a speed so high that forage / speed is below the normal
\* floats.
HugeSpeed == FRound(BPow(<<10>>, 308), 0, FALSE)

HugeTeams == {Team(Pets(g), Some(HugeSpeed)) : g \in {<<>>, <<ALCHEMIC>>}}

Input(f, x, y, h) ==
    [territory |-> [forage |-> f], team_a |-> x, team_b |-> y, max_hours |-> h]

\* The arguments of simulate_progressive: the small ones, those on which a step
\* falls short of or beyond a requirement by rounding, those on which the first
\* step of the faster team does, and those on which its length is subnormal.
Inputs ==
    {Input(f, x, y, h) : f \in 0..MaxForage, x \in Teams, y \in Teams, h \in Hours}
    \cup {Input(f, x, y, h) : f \in FloatMinForage..FloatMaxForage,
                              x \in FloatTeams, y \in FloatTeams,
                              h \in 1..FloatMaxHours}
    \cup {Input(f, x, y, h) : f \in 1..MaxForage, x \in Teams, y \in MissTeams,
                              h \in 1..MaxHours}
    \cup {Input(f, Team(<<>>, Some(FInt(s))), y, h) :
              f \in 1..MaxForage, s \in 0..MaxSpeed, y \in HugeTeams,
              h \in 1..MaxHours}

\* ------------------------------------------------------------ state machine
AtLoopHead == pc \in {"start", "yield95"}

\* The locals of an invocation before its first resumption.
Started ==
    /\ a = init_state(team_a)
    /\ b = init_state(team_b)
    /\ timeline = <<FZero>>
    /\ a_yield = <<FZero>>
    /\ b_yield = <<FZero>>
    /\ breakeven = None
    /\ t = FZero
    /\ pc = "start"
    /\ yielded = <<>>
    /\ emitted = <<>>

Init ==
    /\ \E i \in Inputs :
           /\ territory = i.territory
           /\ team_a = i.team_a
           /\ team_b = i.team_b
           /\ max_hours = i.max_hours
    /\ stop_at_breakeven \in BOOLEAN
    /\ Started
    /\ call = None
    /\ result = None
    /\ current = 1
    /\ suspended = None

\* The consumer pulls and the while condition is false: the generator ends.
LoopExit ==
    /\ AtLoopHead
    /\ ~LoopCondition
    /\ pc' = "done"
    /\ UNCHANGED <<territory, team_a, team_b, max_hours, stop_at_breakeven,
                   a, b, timeline, a_yield, b_yield, breakeven, t, yielded,
                   emitted, call, result, current, suspended>>

\* The consumer pulls and the advanced time exceeds max_hours: break.
Overshoot ==
    /\ AtLoopHead
    /\ LoopCondition
    /\ \E nt \in {FAdd(t, StepDt)} :
           /\ Overshoots(nt)
           /\ t' = nt
    /\ pc' = "done"
    /\ UNCHANGED <<territory, team_a, team_b, max_hours, stop_at_breakeven,
                   a, b, timeline, a_yield, b_yield, breakeven, yielded,
                   emitted, call, result, current, suspended>>

\* The consumer pulls and one step is applied, recorded and emitted.
Step ==
    /\ AtLoopHead
    /\ LoopCondition
    /\ Len(emitted) < MaxEmissions
    /\ \E dt \in {StepDt} :
       \E nt \in {FAdd(t, dt)} :
           /\ ~Overshoots(nt)
           /\ \E na \in {UpdateState(a, dt)}, nb \in {UpdateState(b, dt)} :
              \E detected \in {BreakevenDetected(na, nb, breakeven)} :
                  LET nbe == IF detected THEN Some(nt) ELSE breakeven
                      ntl == AppendSample(timeline, nt)
                      nay == AppendSample(a_yield, na.spice)
                      nby == AppendSample(b_yield, nb.spice)
                  IN  /\ t' = nt
                      /\ a' = na
                      /\ b' = nb
                      /\ timeline' = ntl
                      /\ a_yield' = nay
                      /\ b_yield' = nby
                      /\ breakeven' = nbe
                      /\ yielded' = Append(yielded, YieldedTuple(nbe))
                      /\ emitted' = Append(emitted, Snapshot(ntl, nay, nby, nbe))
                      /\ pc' = IF ReturnsAfter(detected, stop_at_breakeven)
                               THEN "yield92" ELSE "yield95"
    /\ UNCHANGED <<territory, team_a, team_b, max_hours, stop_at_breakeven,
                   call, result, current, suspended>>

\* The consumer pulls after the emission of line 92: return.
Return ==
    /\ pc = "yield92"
    /\ pc' = "done"
    /\ UNCHANGED <<territory, team_a, team_b, max_hours, stop_at_breakeven,
                   a, b, timeline, a_yield, b_yield, breakeven, t, yielded,
                   emitted, call, result, current, suspended>>

Next == LoopExit \/ Overshoot \/ Step \/ Return

Spec == Init /\ [][Next]_vars

\* ---------------------------------------------------------- two invocations
\* The parameters and locals of the invocation being pulled (its frame).
Frame ==
    [territory |-> territory, max_hours |-> max_hours,
     stop_at_breakeven |-> stop_at_breakeven,
     a |-> a, b |-> b, timeline |-> timeline, a_yield |-> a_yield,
     b_yield |-> b_yield, breakeven |-> breakeven, t |-> t, pc |-> pc,
     yielded |-> yielded, emitted |-> emitted]

\* The frame of simulate_progressive(territory, team_a, team_b, ...) before its
\* first resumption.
NewFrame(tr, hours, stop) ==
    [territory |-> tr, max_hours |-> hours, stop_at_breakeven |-> stop,
     a |-> init_state(team_a), b |-> init_state(team_b),
     timeline |-> <<FZero>>, a_yield |-> <<FZero>>, b_yield |-> <<FZero>>,
     breakeven |-> None, t |-> FZero, pc |-> "start",
     yielded |-> <<>>, emitted |-> <<>>]

\* Mutant: the list is one object shared by the invocations, not a local.
OwnList_Shared(saved, live) == live

\* A list an invocation created (timeline = [0.0], ...): resuming the invocation
\* finds the list of its own frame, whatever the other invocation appended.
OwnList(saved, live) == saved

\* The teams main builds: the default genetics with a manual speed.
MetaTeams == {Team(Pets(DEFAULT_TEAMS[META_TEAM]), Some(FInt(s))) : s \in 0..MaxSpeed}

AlchemicTeams ==
    {Team(Pets(DEFAULT_TEAMS[ALCHEMIC_TEAM]), Some(FInt(s))) : s \in 0..MaxSpeed}

Territories == {[forage |-> f] : f \in 0..MaxForage}

PairInit ==
    /\ territory \in Territories
    /\ team_a \in MetaTeams
    /\ team_b \in AlchemicTeams
    /\ max_hours \in Hours
    /\ stop_at_breakeven \in BOOLEAN
    /\ Started
    /\ call = None
    /\ result = None
    /\ current = 1
    /\ suspended \in {Some(NewFrame(tr, max_hours, stop_at_breakeven)) :
                        tr \in Territories}

\* The consumer turns to the other generator: the running frame is kept as it
\* is and the other one becomes the running one.
Switch ==
    /\ suspended # None
    /\ LET f == ValueOf(suspended)
       IN  /\ territory' = f.territory
           /\ max_hours' = f.max_hours
           /\ stop_at_breakeven' = f.stop_at_breakeven
           /\ a' = f.a
           /\ b' = f.b
           /\ timeline' = OwnList(f.timeline, timeline)
           /\ a_yield' = OwnList(f.a_yield, a_yield)
           /\ b_yield' = OwnList(f.b_yield, b_yield)
           /\ breakeven' = f.breakeven
           /\ t' = f.t
           /\ pc' = f.pc
           /\ yielded' = f.yielded
           /\ emitted' = f.emitted
    /\ suspended' = Some(Frame)
    /\ current' = 3 - current
    /\ UNCHANGED <<team_a, team_b, call, result>>

PairNext == LoopExit \/ Overshoot \/ Step \/ Return \/ Switch

PairSpec == PairInit /\ [][PairNext]_vars

\* ------------------------------------------------------------- direct calls
\* All pet lists of length n over the given pets.
PetLists(n, pets) == [1..n -> pets]

TeamCalls ==
    {[op |-> "Team", pets |-> p, manual_speed |-> ms] :
        p \in UNION {PetLists(n, {Pet(ALCHEMIC), PetWithPower(MONOLITHIC, FInt(1))}) :
                        n \in 0..MaxPets},
        ms \in {None} \cup {Some(FInt(s)) : s \in 0..MaxSpeed}}

RequirementCalls ==
    {[op |-> "calculate_forage_requirement",
      base |-> base, fills |-> fills, monolithic_count |-> m] :
        base \in 0..MaxForage, fills \in 0..MaxFills, m \in 0..MAX_TEAM_SIZE}

\* The hours n / d as the float division gives them.  With d = 32 the product
\* hours * 3600 is exact and a multiple of half a second; with the other
\* divisors the hours or the product are rounded.
FormatTimeCalls ==
    {[op |-> "format_time", hours |-> FDiv(FInt(n), FInt(d))] :
        n \in 0..MaxTicks, d \in {32, 96, 800, 7200}}

\* No generator is running while a direct call is applied.
NoSimulation ==
    /\ territory = [forage |-> 0]
    /\ team_a = Team(<<>>, Some(FZero))
    /\ team_b = Team(<<>>, Some(FZero))
    /\ max_hours = 0
    /\ stop_at_breakeven = FALSE
    /\ a = init_state(team_a)
    /\ b = init_state(team_b)
    /\ timeline = <<>>
    /\ a_yield = <<>>
    /\ b_yield = <<>>
    /\ breakeven = None
    /\ t = FZero
    /\ pc = "call"
    /\ yielded = <<>>
    /\ emitted = <<>>
    /\ current = 1
    /\ suspended = None

CallInit ==
    /\ call \in TeamCalls \cup RequirementCalls \cup FormatTimeCalls
    /\ result = None
    /\ NoSimulation

Pending(op) == pc = "call" /\ call.op = op

ConstructTeam ==
    /\ Pending("Team")
    /\ result' = NewTeam(call.pets, call.manual_speed)
    /\ pc' = "called"
    /\ UNCHANGED <<territory, team_a, team_b, max_hours, stop_at_breakeven,
                   a, b, timeline, a_yield, b_yield, breakeven, t, yielded,
                   emitted, call, current, suspended>>

ApplyRequirement ==
    /\ Pending("calculate_forage_requirement")
    /\ result' = With(calculate_forage_requirement(
                           call.base, call.fills, call.monolithic_count),
                      LAMBDA req : IF req = OverflowError
                                   THEN Raised("OverflowError")
                                   ELSE Returned(req))
    /\ pc' = "called"
    /\ UNCHANGED <<territory, team_a, team_b, max_hours, stop_at_breakeven,
                   a, b, timeline, a_yield, b_yield, breakeven, t, yielded,
                   emitted, call, current, suspended>>

ApplyFormatTime ==
    /\ Pending("format_time")
    /\ result' = Returned(format_time(call.hours))
    /\ pc' = "called"
    /\ UNCHANGED <<territory, team_a, team_b, max_hours, stop_at_breakeven,
                   a, b, timeline, a_yield, b_yield, breakeven, t, yielded,
                   emitted, call, current, suspended>>

CallNext == ConstructTeam \/ ApplyRequirement \/ ApplyFormatTime

CallSpec == CallInit /\ [][CallNext]_vars

\* ------------------------------------------------------------------ claims
Last(seq) == seq[Len(seq)]

InitialSnapshot == Snapshot(<<FZero>>, <<FZero>>, <<FZero>>, None)

JustStepped == pc \in {"yield92", "yield95"}

\* time > max_hours, for a time >= 0
BeyondBudget(time) == max_hours < 0 \/ FLt(FInt(max_hours), time)

\* The smallest index of tuple e at which team B's yield exceeds team A's, or 0.
FirstLead(e) ==
    LET S == {i \in 1..Len(e.timeline) : FLt(e.team_a_yield[i], e.team_b_yield[i])}
    IN  IF S = {} THEN 0 ELSE CHOOSE i \in S : \A j \in S : i <= j

HasBreakevenEmission == \E k \in 1..Len(emitted) : emitted[k].breakeven # None

\* C1: in every emitted tuple breakeven is None when no recorded sample has
\* b_yield[i] > a_yield[i], and otherwise it is timeline[i] for the smallest such
\* i; once it is non-None every later emission carries the same value.
C1_BreakevenIsFirstLead ==
    \A k \in 1..Len(emitted) :
        LET e == emitted[k]
            i == FirstLead(e)
        IN  /\ (i = 0 => e.breakeven = None)
            /\ (i # 0 => e.breakeven = Some(e.timeline[i]))
            /\ \A j \in k..Len(emitted) :
                   e.breakeven # None => emitted[j].breakeven = e.breakeven

\* C1 witness: breakeven was detected at a sample that follows one in which team A
\* led (index 3 or later), so the first-lead index is not the first step.
C1_Witness ==
    /\ territory.forage > 0
    /\ HasBreakevenEmission
    /\ FirstLead(Last(emitted)) >= 3
    /\ \E i \in 1..Len(a_yield) : FLt(b_yield[i], a_yield[i])

\* C2: with stop_at_breakeven the emission in which breakeven first becomes
\* non-None is the last one (emitted once, its last timeline value is breakeven,
\* the next resumption returns); without it the generator ends only when the
\* advanced time exceeds max_hours, so it keeps emitting after detection.
C2_StopAtBreakeven ==
    /\ stop_at_breakeven =>
           \A k \in 1..Len(emitted) :
               emitted[k].breakeven # None =>
                   /\ k = Len(emitted)
                   /\ pc \in {"yield92", "done"}
                   /\ Some(Last(emitted[k].timeline)) = emitted[k].breakeven
    /\ ~stop_at_breakeven => pc # "yield92"
    /\ (~stop_at_breakeven /\ pc = "done") => BeyondBudget(t)

\* C2 witness: a run with stop_at_breakeven ended after a detection that was not
\* its first emission.
C2_Witness ==
    /\ territory.forage > 0
    /\ stop_at_breakeven
    /\ pc = "done"
    /\ Len(emitted) >= 2
    /\ Last(emitted).breakeven # None

\* C2 second case reached: without stop_at_breakeven an emission follows the detection.
C2_ContinuesReached ==
    /\ territory.forage > 0
    /\ ~stop_at_breakeven
    /\ Len(emitted) >= 2
    /\ emitted[1].breakeven # None

StrictlyIncreasing(seq) == \A i \in 1..(Len(seq) - 1) : FLt(seq[i], seq[i + 1])

NonDecreasing(seq) == \A i \in 1..(Len(seq) - 1) : FLe(seq[i], seq[i + 1])

\* C3: for forage >= 0 and speeds >= 0, in every emitted tuple the timeline is
\* strictly increasing and both yield histories are non-decreasing.
C3_Monotone ==
    \A k \in 1..Len(emitted) :
        /\ StrictlyIncreasing(emitted[k].timeline)
        /\ NonDecreasing(emitted[k].team_a_yield)
        /\ NonDecreasing(emitted[k].team_b_yield)

\* C4: the first element produced is the initial snapshot ([0], [0], [0], None),
\* produced before any step and whether or not any step fits in the budget.
C4_InitialSnapshotFirst ==
    /\ pc # "start" => Len(emitted) >= 1
    /\ Len(emitted) >= 1 => emitted[1] = InitialSnapshot

\* C5: no emitted time exceeds max_hours; an overshooting step ends the generator
\* and leaves the histories as last emitted; only a time strictly beyond max_hours
\* is discarded, so a step landing exactly on max_hours is applied and emitted.
C5_BudgetRespected ==
    /\ \A k \in 1..Len(emitted) :
           \A i \in 1..Len(emitted[k].timeline) :
               ~BeyondBudget(emitted[k].timeline[i])
    /\ Snapshot(timeline, a_yield, b_yield, breakeven)
           = (IF emitted = <<>> THEN InitialSnapshot ELSE Last(emitted))
    /\ BeyondBudget(t) => pc \in {"start", "done"}
    /\ (pc = "done" /\ Last(timeline) # t) => BeyondBudget(t)

\* C5 witness: a finite step beyond max_hours was discarded after an emission, and
\* the last recorded time stays below max_hours (it is not clamped).
C5_Witness ==
    /\ territory.forage > 0
    /\ pc = "done"
    /\ Len(emitted) >= 1
    /\ ~FIsInf(t)
    /\ BeyondBudget(t)
    /\ FLt(Last(timeline), FInt(max_hours))

\* C5 second case reached: a step landed exactly on max_hours and was emitted.
C5_ExactLandingReached ==
    /\ Len(emitted) >= 1
    /\ max_hours > 0
    /\ Last(timeline) = FInt(max_hours)

\* The step to come changes nothing but the histories: it adds no time, gives
\* neither team progress or a fill and detects no breakeven.  The generator is
\* then at the same line with the same locals, so the same step follows it, and
\* so on without end.
StepRepeats ==
    /\ pc = "yield95"
    /\ LoopCondition
    /\ With(StepDt, LAMBDA dt :
           /\ FAdd(t, dt) = t
           /\ UpdateState(a, dt) = a
           /\ UpdateState(b, dt) = b)
    /\ ~BreakevenDetected(a, b, breakeven)

\* C6: for max_hours >= 0 a consumer that keeps pulling reaches the end after
\* finitely many emissions.  Every resumption either emits one tuple or ends the
\* generator, so the number of emissions is bounded by the inputs, never
\* exceeding 2 + (speed_a + speed_b) * max_hours, no step repeats without end,
\* and a negative budget emits nothing.
C6_FinitelyManyEmissions ==
    /\ max_hours >= 0 =>
           FLe(FInt(Len(emitted)),
               FAdd(FInt(2), FMul(FAdd(a.speed, b.speed), FInt(max_hours))))
    /\ ~StepRepeats
    /\ max_hours < 0 => emitted = <<>>

\* C7: when both teams have speed 0 the generator yields only the initial
\* zero-state and then terminates.
C7_ZeroSpeedsYieldInitialOnly ==
    (FIsZero(a.speed) /\ FIsZero(b.speed) /\ pc = "done")
        => emitted = <<InitialSnapshot>>

EqualTeams ==
    /\ a.speed = b.speed
    /\ ~FIsZero(a.speed)
    /\ a.alchemic = b.alchemic
    /\ a.monolithic = b.monolithic

\* C8: for two teams of equal nonzero speed and equal Alchemic and Monolithic
\* counts, every emitted tuple has equal yields at every index and breakeven None.
C8_EqualTeamsNeverBreakEven ==
    EqualTeams =>
        \A k \in 1..Len(emitted) :
            /\ emitted[k].breakeven = None
            /\ \A i \in 1..Len(emitted[k].timeline) :
                   emitted[k].team_a_yield[i] = emitted[k].team_b_yield[i]

\* C8 witness: two different teams of equal speed and composition counts both
\* completed a cycle in an emitted step.
C8_Witness ==
    /\ territory.forage > 0
    /\ EqualTeams
    /\ team_a # team_b
    /\ Len(emitted) >= 1
    /\ a.fills >= 1
    /\ b.fills >= 1

\* Team B is faster and has more Alchemic pets than team A, and max_hours is at
\* least the time of team B's first fill, forage / speed_B.
C9_Premise ==
    /\ FLt(a.speed, b.speed)
    /\ b.alchemic > a.alchemic
    /\ max_hours >= 0
    /\ FLe(FDiv(FInt(territory.forage), b.speed), FInt(max_hours))

\* C9: when team B has strictly higher speed and strictly more Alchemic pets than
\* team A and max_hours is at least forage / speed_B, the sequence contains an
\* emission with breakeven non-None: it has one by the time the generator has
\* ended or has come to a step that repeats without end.
C9_BreakevenEventually ==
    (C9_Premise /\ (pc = "done" \/ StepRepeats)) => HasBreakevenEmission

\* C10: the three histories of every emitted tuple have the same length, and each
\* emission's histories are the previous emission's (the initial ones for the
\* first) extended by exactly the sample (t, team_a.spice, team_b.spice).
C10_HistoriesGrowByOne ==
    /\ \A k \in 1..Len(emitted) :
           LET e == emitted[k]
               p == IF k = 1 THEN InitialSnapshot ELSE emitted[k - 1]
           IN  /\ Len(e.timeline) = Len(e.team_a_yield)
               /\ Len(e.timeline) = Len(e.team_b_yield)
               /\ Len(e.timeline) = Len(p.timeline) + 1
               /\ SubSeq(e.timeline, 1, Len(p.timeline)) = p.timeline
               /\ SubSeq(e.team_a_yield, 1, Len(p.timeline)) = p.team_a_yield
               /\ SubSeq(e.team_b_yield, 1, Len(p.timeline)) = p.team_b_yield
    /\ pc \in {"yield92", "yield95"} =>
           /\ Last(Last(emitted).timeline) = t
           /\ Last(Last(emitted).team_a_yield) = a.spice
           /\ Last(Last(emitted).team_b_yield) = b.spice

\* C10 witness: on a positive forage, a second emission whose histories hold the
\* first emission's two samples and one more.
C10_Witness ==
    /\ territory.forage > 0
    /\ Len(emitted) >= 2
    /\ Len(Last(emitted).timeline) = 3
    /\ FLt(emitted[1].timeline[2], Last(emitted).timeline[3])

TeamCallDone == call # None /\ call.op = "Team" /\ result # None

RaisedValueError == result.raised = Some("ValueError") /\ result.returned = None

\* C11: constructing a Team raises the validation error when it has more than 4
\* pets, and when manual_speed is unset and some pet has no power; with at most 4
\* pets and a manual_speed it returns the Team even if pets have no power.  The
\* call returns an object only when neither failure applies.
C11_TeamValidation ==
    TeamCallDone =>
        /\ Len(call.pets) > 4 => RaisedValueError
        /\ (call.manual_speed = None
               /\ \E i \in 1..Len(call.pets) : call.pets[i].power = None)
               => RaisedValueError
        /\ (Len(call.pets) <= 4 /\ call.manual_speed # None)
               => result = Returned(Team(call.pets, call.manual_speed))
        /\ result.returned # None =>
               /\ result.raised = None
               /\ Len(ValueOf(result.returned).pets) <= 4
               /\ \/ ValueOf(result.returned).manual_speed # None
                  \/ \A i \in 1..Len(call.pets) : call.pets[i].power # None

\* C11 witness: a team of four pets, one of them without power, was constructed
\* with a manual speed.
C11_Witness ==
    /\ TeamCallDone
    /\ Len(call.pets) = 4
    /\ \E i \in 1..4 : call.pets[i].power = None
    /\ call.manual_speed # None
    /\ result.returned # None

\* C11 failures reached: five pets with a manual speed, and a pet without power
\* in a team of no manual speed, both raised.
C11_SizeFailureReached ==
    TeamCallDone /\ Len(call.pets) = 5 /\ call.manual_speed # None /\ RaisedValueError

C11_PowerFailureReached ==
    /\ TeamCallDone
    /\ Len(call.pets) = 1
    /\ call.pets[1].power = None
    /\ call.manual_speed = None
    /\ RaisedValueError

\* C12: every Team the constructor returns has between 1 and 4 pets.
C12_TeamHasOneToFourPets ==
    (TeamCallDone /\ result.returned # None) =>
        Len(ValueOf(result.returned).pets) \in 1..4

RequirementCallDone ==
    call # None /\ call.op = "calculate_forage_requirement" /\ result # None

\* C13: calculate_forage_requirement(base, n, m) is at most
\* calculate_forage_requirement(base, n + 1, m) for base >= 0 and m >= 0, and
\* calculate_forage_requirement(base, 0, m) is base.
C13_RequirementMonotone ==
    RequirementCallDone =>
        /\ FLe(ValueOf(result.returned),
               calculate_forage_requirement(call.base, call.fills + 1,
                                            call.monolithic_count))
        /\ call.fills = 0 => ValueOf(result.returned) = FInt(call.base)

\* C13 witness: a later cycle of a team with Monolithic pets on a positive base,
\* whose requirement exceeds the base.
C13_Witness ==
    /\ RequirementCallDone
    /\ call.base > 0
    /\ call.fills = MaxFills
    /\ call.monolithic_count > 0
    /\ FLt(FInt(call.base + call.fills), ValueOf(result.returned))

FormatTimeCallDone == call # None /\ call.op = "format_time" /\ result # None

\* hours * 3600 as the program computes it
SecondsOf(hours) == FMul(hours, FInt(3600))

\* The largest integer at most x, for a float x >= 0 below 2^31
Floor(x) ==
    IF FIsZero(x) THEN 0
    ELSE IF x.e >= 0 THEN BToInt(BShl(x.m, x.e))
    ELSE BToInt(BShr(x.m, 0 - x.e))

\* S is an integer nearest to x: S - 1/2 <= x <= S + 1/2.
Nearest(S, x) ==
    /\ S > 0 => FLe(FDiv(FInt(2 * S - 1), FInt(2)), x)
    /\ FLe(x, FDiv(FInt(2 * S + 1), FInt(2)))

\* The text the claim gives for S seconds.
TimeText(S) ==
    LET h == S \div 3600
        m == (S % 3600) \div 60
        s == S % 60
    IN  IF h > 0 /\ m = 0 THEN ToString(h) \o "h"
        ELSE IF h > 0 THEN ToString(h) \o "h " \o ToString(m) \o "m"
        ELSE IF m > 0 /\ s = 0 THEN ToString(m) \o "m"
        ELSE IF m > 0 THEN ToString(m) \o "m " \o ToString(s) \o "s"
        ELSE IF s > 0 THEN ToString(s) \o "s"
        ELSE "0s"

\* C14: format_time(hours) is the text for S = hours * 3600 rounded to the nearest
\* integer second: "{h}h {m}m" when h > 0 ("{h}h" when m = 0), else "{m}m {s}s"
\* when m > 0 ("{m}m" when s = 0), else "{s}s" when s > 0, else "0s".  The
\* product is the float the program computes.
C14_FormatTime ==
    FormatTimeCallDone =>
        \E S \in {Floor(SecondsOf(call.hours)), Floor(SecondsOf(call.hours)) + 1} :
            /\ Nearest(S, SecondsOf(call.hours))
            /\ result = Returned(TimeText(S))

\* C14 witness: more than an hour whose seconds are not a whole number (3712.5),
\* with nonzero minutes and seconds, so rounding happened and the seconds were
\* dropped.
C14_Witness ==
    /\ FormatTimeCallDone
    /\ FLt(FInt(1), call.hours)
    /\ SecondsOf(call.hours) = FDiv(FInt(7425), FInt(2))
    /\ result = Returned("1h 1m")

\* C14 rounded product reached: 13 / 96 hours, whose product with 3600 is the
\* float just below 487.5.
C14_RoundedProductReached ==
    /\ FormatTimeCallDone
    /\ call.hours = FDiv(FInt(13), FInt(96))
    /\ FLt(SecondsOf(call.hours), FDiv(FInt(975), FInt(2)))
    /\ result = Returned("8m 7s")

\* C14 tie made by the product reached: 1 / 800 hours is a float just above
\* 0.00125, its exact product with 3600 is above 4.5, the float product is 4.5
\* and the tie goes to the even second.
C14_ProductRoundedToTieReached ==
    /\ FormatTimeCallDone
    /\ call.hours = FDiv(FInt(1), FInt(800))
    /\ call.hours.e < 0
    /\ BCmp(BMul(call.hours.m, BFromInt(7200)), BShl(BFromInt(9), 0 - call.hours.e)) = 1
    /\ SecondsOf(call.hours) = FDiv(FInt(9), FInt(2))
    /\ result = Returned("4s")

\* C14 other forms reached.
C14_MinutesSecondsReached == FormatTimeCallDone /\ result = Returned("1m 52s")

C14_SecondsReached == FormatTimeCallDone /\ result = Returned("59s")

C14_WholeMinuteReached == FormatTimeCallDone /\ result = Returned("1m")

C14_WholeHourReached == FormatTimeCallDone /\ result = Returned("2h")

C14_ZeroReached == FormatTimeCallDone /\ result = Returned("0s")

\* The yield of `fills` completed cycles with `alchemic` Alchemic pets.
YieldOfFills(fills, alchemic) == FDiv(FInt(fills * (2 + alchemic)), FInt(2))

\* C16: in every reachable state each team's spice is
\* fills * (1 + 0.5 * alchemic_count), where alchemic_count is the number of pets
\* named "Alchemic" captured at entry; every recorded yield is such a multiple,
\* whatever the Monolithic count.
C16_SpiceIsFillsTimesYield ==
    /\ a.alchemic = count_genetic(team_a, ALCHEMIC)
    /\ b.alchemic = count_genetic(team_b, ALCHEMIC)
    /\ a.spice = YieldOfFills(a.fills, a.alchemic)
    /\ b.spice = YieldOfFills(b.fills, b.alchemic)
    /\ Last(a_yield) = a.spice
    /\ Last(b_yield) = b.spice

\* C16 witness: on a positive forage a team of three Alchemic pets completed a
\* cycle (2.5 spice) while a team with a Monolithic pet completed one (1 spice).
C16_Witness ==
    /\ territory.forage > 0
    /\ a.monolithic = 1
    /\ a.fills = 1
    /\ a.spice = FInt(1)
    /\ b.alchemic = 3
    /\ b.fills = 1
    /\ b.spice = FDiv(FInt(5), FInt(2))

AllZero(history) == \A i \in 1..Len(history) : history[i] = FZero

\* C17: for any forage >= 0 a team of speed 0 completes no cycle and its yield
\* is 0 in every emitted snapshot, and its fill time is infinite, so it never
\* determines dt.
C17_ZeroSpeedTeamIdle ==
    /\ FIsZero(a.speed) =>
           /\ a.fills = 0
           /\ \A k \in 1..Len(emitted) : AllZero(emitted[k].team_a_yield)
           /\ FIsInf(next_fill_time(a))
    /\ FIsZero(b.speed) =>
           /\ b.fills = 0
           /\ \A k \in 1..Len(emitted) : AllZero(emitted[k].team_b_yield)
           /\ FIsInf(next_fill_time(b))

IsPrefix(s1, s2) == Len(s1) <= Len(s2) /\ SubSeq(s2, 1, Len(s1)) = s1

Other == ValueOf(suspended)

\* A resumption of the running generator leaves the other frame and the inputs
\* as they are; a switch resumes the other generator in exactly the frame it
\* was left in and keeps the running one unchanged.
C18_Step ==
    /\ UNCHANGED <<team_a, team_b>>
    /\ current' = current =>
           /\ suspended' = suspended
           /\ UNCHANGED <<territory, max_hours, stop_at_breakeven>>
    /\ current' # current =>
           /\ Frame' = Other
           /\ suspended' = Some(Frame)

\* Two invocations on the same inputs have produced, whatever the order of the
\* pulls, sequences of which one is a prefix of the other, and the same sequence
\* once both have ended.
C18_State ==
    (Other.territory = territory /\ Other.max_hours = max_hours
        /\ Other.stop_at_breakeven = stop_at_breakeven) =>
        /\ IsPrefix(emitted, Other.emitted) \/ IsPrefix(Other.emitted, emitted)
        /\ (pc = "done" /\ Other.pc = "done") => emitted = Other.emitted

\* C18: two invocations share no mutable state: under every interleaving of
\* pulls, one generator possibly abandoned mid-sequence, each generator advances
\* only on its own pulls and from its own frame, so it produces the sequence it
\* produces alone, and the Team and Territory inputs are unchanged.
C18_InvocationsIndependent == []C18_State /\ [][C18_Step]_vars

\* C18 witness: the second generator ran to its end with two emissions while the
\* first, on another territory, stays abandoned after its first emission.
C18_Witness ==
    /\ current = 2
    /\ pc = "done"
    /\ Len(emitted) >= 2
    /\ territory.forage > 0
    /\ Other.territory # territory
    /\ Other.pc = "yield95"
    /\ Len(Other.emitted) = 1

\* C18 interleaving reached: both generators, on the same inputs, ended after
\* the consumer switched between them at least twice.
C18_InterleavedReached ==
    /\ current = 1
    /\ pc = "done"
    /\ Other.pc = "done"
    /\ Other.territory = territory
    /\ territory.forage > 0
    /\ Len(emitted) >= 1

\* The loop is at a step that will be applied: the advanced time fits.
StepApplies ==
    /\ AtLoopHead
    /\ LoopCondition
    /\ ~Overshoots(FAdd(t, StepDt))

\* The value the fill check of the coming step compares with the requirement.
ProgressAtFillCheck(state) == AccruedProgress(state, StepDt)

\* C15: at the fill check of every applied step each team's accrued progress is
\* at most the requirement of its current cycle, and after every step each
\* team's progress is below the requirement of its current cycle.
C15_SingleFillSound ==
    /\ StepApplies =>
           /\ FLe(ProgressAtFillCheck(a), Requirement(a))
           /\ FLe(ProgressAtFillCheck(b), Requirement(b))
    /\ JustStepped =>
           /\ FLt(a.progress, Requirement(a))
           /\ FLt(b.progress, Requirement(b))

\* The newest sample of a history is larger than the one before it.
Increased(history) == FLt(history[Len(history) - 1], history[Len(history)])

\* C19: every emitted step is a fill event: the sample just emitted has a
\* strictly larger yield than the previous sample for at least one team.
C19_EveryStepFills ==
    JustStepped => (Increased(a_yield) \/ Increased(b_yield))

\* ------------------------------------------------------------ yielded tuples
\* The tuple just handed out reads as the consumer's record of it says.
ReadAtYield == JustStepped => ReadTuple(Last(yielded)) = Last(emitted)

\* Every tuple handed out so far holds the generator's own lists: whoever kept
\* one reads the histories as they are now, with the breakeven it was given.
HeldTuplesShowLiveLists ==
    /\ Len(yielded) = Len(emitted)
    /\ \A k \in 1..Len(yielded) :
           ReadTuple(yielded[k])
               = Snapshot(timeline, a_yield, b_yield, emitted[k].breakeven)

\* Every power the specifications take has an exponent below PowNearestBelow,
\* where pow returns the nearest float.
PowersAreNearest ==
    /\ a.fills < PowNearestBelow /\ b.fills < PowNearestBelow
    /\ (call # None /\ call.op = "calculate_forage_requirement")
           => call.fills < PowNearestBelow
====
